---- MODULE Spec2Model ----
(***************************************************************************)
(* The ingestion pipeline of crawler.py (class Crawler): the Ledger skip   *)
(* check, sourcing of the gzip stream (local cache or remote fetch), the   *)
(* per-line drain loop with its exception handlers, the Ledger commit and  *)
(* the rollback loops, driven by the hourly and daily entry points.        *)
(*                                                                         *)
(* MongoDB, GridFS, the file system and the remote archive are the         *)
(* environment: every write issued by the code draws its result from the   *)
(* results pymongo / gridfs / urllib can produce.  A write whose result is *)
(* not acknowledged has an outcome the client does not know: it is applied *)
(* by the server or not, nondeterministically.                             *)
(***************************************************************************)
EXTENDS Integers, Sequences, FiniteSets

\* ------------------------------------------------------------------ bounds
MaxLines == 2      \* longest archive payload, in lines
MaxCalls == 2      \* calls of the per-unit entry point in one behaviour
NumHours == 2      \* hours a daily run iterates over (range(24) in the code)
MaxFaults == 1     \* failing results the environment returns in one behaviour

Workers == {"w1", "w2"}
Dates == {"2015-01-01"}
Hours == 0 .. (NumHours - 1)
Units == Dates \X Hours

\* What json.loads makes of a raw line: a JSON value, a JSONDecodeError
\* (malformed, empty or whitespace-only text) or a UnicodeDecodeError (bytes
\* that are no UTF-8/16/32 text).
LineKinds == {"json", "malformed", "undecodable"}

RECURSIVE SeqsUpTo(_, _)
SeqsUpTo(S, n) ==
    IF n = 0 THEN {<<>>}
    ELSE LET shorter == SeqsUpTo(S, n - 1)
         IN  shorter \cup {Append(s, x) : s \in {t \in shorter : Len(t) = n - 1}, x \in S}

VARIABLES
    archive,    \* the kinds of the lines of a remote payload
    cache,      \* local file system: the cache file of each unit
    primary,    \* the documents of the per-date collections
    status,     \* the documents of the 'status' collection (the Ledger)
    gridfs,     \* the documents of the 'gridfs' collection (index rows)
    fs,         \* the GridFS files (blobs)
    stdout,     \* the outcome lines each worker's processes have printed
    requests,   \* remote fetches issued, per unit
    calls,      \* calls of __insert_hourly_gh_data_into_mongodb so far
    faults,     \* failing results the environment has returned so far
    loc,        \* per worker: control position and local variables
    hist        \* per worker: what happened in its current call (history only)

vars == <<archive, cache, primary, status, gridfs, fs, stdout, requests, calls, faults, loc, hist>>

stores == <<primary, status, gridfs, fs>>

\* ------------------------------------------------------------------ data
\* f'{date}-{hour}': the Ledger key of a unit.
UnitKey(d, h) == <<d, h>>

\* The i-th raw line of the payload of unit (d, h): its bytes are its own.
RawLine(d, h, i) == [bytes |-> <<d, h, i>>, kind |-> archive[i]]

\* json.loads(line): the parsed event, or the exception it raises.
json_loads(line) ==
    CASE line.kind = "json"        -> [exc |-> "none", event |-> <<"event", line.bytes>>]
      [] line.kind = "malformed"   -> [exc |-> "JSONDecodeError", event |-> <<>>]
      [] line.kind = "undecodable" -> [exc |-> "UnicodeDecodeError", event |-> <<>>]

\* Identities the client generates: one per call and line (ObjectId).
NewId(k, a, n) == [kind |-> k, att |-> a, n |-> n]

NoFile == [exists |-> FALSE, lines |-> 0, truncated |-> FALSE]
WholeFile == [exists |-> TRUE, lines |-> Len(archive), truncated |-> FALSE]
\* A stream that ends before the end-of-stream marker, after n whole lines.
TruncatedFile(n) == [exists |-> TRUE, lines |-> n, truncated |-> TRUE]

NoLine == [bytes |-> <<>>, kind |-> "none"]
NoLast == [op |-> "none", exc |-> "none", fb |-> "none", line |-> NoLine, n |-> 0]

IdleLoc ==
    [pc |-> "idle", mode |-> "none", date |-> "none", hour |-> 0,
     gzip_file |-> NoFile, pos |-> 0, col |-> "none",
     is_insertion_complete |-> TRUE, inserted_ids |-> <<>>, inserted_file_ids |-> <<>>,
     i |-> 1, j |-> 1, ret |-> FALSE, out0 |-> 0]

NoHist ==
    [att |-> 0, unit |-> <<"none", 0>>, ev |-> {}, outcome |-> "none", last |-> NoLast,
     prev |-> [att |-> 0, unit |-> <<"none", 0>>, ev |-> {}, outcome |-> "none"],
     snap |-> [primary |-> {}, status |-> {}, gridfs |-> {}, fs |-> {},
               cache |-> [u \in Units |-> NoFile], requests |-> [u \in Units |-> 0],
               printed |-> 0]]

InitWith(active) ==
    /\ archive \in SeqsUpTo(LineKinds, MaxLines)
    /\ cache = [u \in Units |-> NoFile]
    /\ primary = {}
    /\ status = {}
    /\ gridfs = {}
    /\ fs = {}
    /\ stdout = [w \in Workers |-> <<>>]
    /\ requests = [u \in Units |-> 0]
    /\ calls = 0
    /\ faults = 0
    /\ loc = [w \in Workers |-> IF w \in active THEN IdleLoc ELSE [IdleLoc EXCEPT !.pc = "off"]]
    /\ hist = [w \in Workers |-> NoHist]

Init == InitWith({"w1"})


\* ------------------------------------------------------------------ helpers
Unit(w) == <<loc[w].date, loc[w].hour>>

SetLoc(w, r) == loc' = [loc EXCEPT ![w] = r]

\* The environment returns n failing results in this step.
Fail(n) == faults + n <= MaxFaults /\ faults' = faults + n

B(p) == IF p THEN 1 ELSE 0

\* History only: the events of worker w's current call and its last step.
Note(w, tags, l) == hist' = [hist EXCEPT ![w] = [@ EXCEPT !.ev = @ \cup tags, !.last = l]]

\* An exception leaves __insert_hourly_gh_data_into_mongodb and every caller
\* above it: insert_hourly_..., the daily loop and main() catch nothing but
\* main's AssertionError (which prints the usage text): the process ends.
Raise(w, tags, l) ==
    /\ SetLoc(w, [loc[w] EXCEPT !.pc = "crashed"])
    /\ hist' = [hist EXCEPT ![w] = [@ EXCEPT !.ev = @ \cup tags, !.last = l, !.outcome = "raised"]]

\* The skip check querying a collection that holds no Ledger entry.
is_exists_in_wrong_collection(d, h) ==
    \E doc \in {} : doc.datetime = UnitKey(d, h)

\* col.find_one({'datetime': f'{date}-{hour}'}) is not None
is_hourly_gh_data_exists_in_mongodb(d, h) ==
    \E doc \in status : doc.datetime = UnitKey(d, h)

\* The existence check on a path no download ever writes.
is_exists_at_wrong_path(d, h) == NoFile.exists

\* os.path.exists(path)
is_hourly_gh_data_exists_in_localfs(d, h) == cache[<<d, h>>].exists

\* ------------------------------------------------------------------ drivers
\* main() with -h: one call of the hourly entry point.
RunHourly(w, d, h) ==
    /\ loc[w].pc \in {"idle", "crashed"}
    /\ calls < MaxCalls
    /\ SetLoc(w, [IdleLoc EXCEPT !.pc = "call", !.mode = "hourly", !.date = d, !.hour = h,
                                 !.out0 = Len(stdout[w])])
    /\ UNCHANGED <<archive, cache, stores, stdout, requests, calls, faults, hist>>

\* main() with -d: insert_daily_gh_data_into_mongodb(date) starts its loop.
RunDaily(w, d) ==
    /\ loc[w].pc \in {"idle", "crashed"}
    /\ calls < MaxCalls
    /\ SetLoc(w, [IdleLoc EXCEPT !.pc = "loop", !.mode = "daily", !.date = d, !.hour = 0,
                                 !.out0 = Len(stdout[w])])
    /\ UNCHANGED <<archive, cache, stores, stdout, requests, calls, faults, hist>>

\* for hour in range(24): the next iteration, or the end of the loop.
DailyLoop(w) ==
    /\ loc[w].pc = "loop"
    /\ IF loc[w].hour < NumHours
       THEN /\ calls < MaxCalls
            /\ SetLoc(w, [loc[w] EXCEPT !.pc = "call"])
       ELSE SetLoc(w, [loc[w] EXCEPT !.pc = "idle"])
    /\ UNCHANGED <<archive, cache, stores, stdout, requests, calls, faults, hist>>

\* print(f'pass,...') / print(f'fail,...') and the return to the driver.
ReportOutcome(w) ==
    /\ loc[w].pc = "print"
    /\ stdout' = [stdout EXCEPT ![w] =
                    Append(@, <<IF loc[w].ret THEN "pass" ELSE "fail", loc[w].date, loc[w].hour>>)]
    /\ hist' = [hist EXCEPT ![w] = [@ EXCEPT !.outcome = IF loc[w].ret THEN "pass" ELSE "fail",
                                             !.last = NoLast]]
    /\ IF loc[w].mode = "daily"
       THEN SetLoc(w, [loc[w] EXCEPT !.pc = "loop", !.hour = @ + 1])
       ELSE SetLoc(w, [loc[w] EXCEPT !.pc = "idle"])
    /\ UNCHANGED <<archive, cache, stores, requests, calls, faults>>

\* ------------------------------------------------------------------ skip check
\* The entry of __insert_hourly_gh_data_into_mongodb and its Ledger check.
IngestBegin(w) ==
    /\ loc[w].pc = "call"
    /\ calls' = calls + 1
    /\ LET skip == is_hourly_gh_data_exists_in_mongodb(loc[w].date, loc[w].hour)
       IN  /\ hist' = [hist EXCEPT ![w] =
                         [att |-> calls + 1, unit |-> Unit(w), ev |-> IF skip THEN {"skip"} ELSE {},
                          outcome |-> "none", last |-> NoLast,
                          prev |-> [att |-> hist[w].att, unit |-> hist[w].unit,
                                    ev |-> hist[w].ev, outcome |-> hist[w].outcome],
                          snap |-> [primary |-> primary, status |-> status, gridfs |-> gridfs,
                                    fs |-> fs, cache |-> cache, requests |-> requests,
                                    printed |-> Len(stdout[w])]]]
           /\ IF skip
              THEN SetLoc(w, [loc[w] EXCEPT !.pc = "print", !.ret = TRUE])
              ELSE SetLoc(w, [loc[w] EXCEPT !.pc = "source"])
    /\ UNCHANGED <<archive, cache, stores, stdout, requests, faults>>

\* ------------------------------------------------------------------ sourcing
\* Lines 141-144: the locals of the drain loop.
StartDrain(w, file) ==
    [loc[w] EXCEPT !.pc = "drain", !.gzip_file = file, !.pos = 0, !.col = loc[w].date,
                   !.is_insertion_complete = TRUE, !.inserted_ids = <<>>,
                   !.inserted_file_ids = <<>>, !.i = 1, !.j = 1]

\* The cache file exists: gzip.GzipFile(path).
SourceCached(w) ==
    /\ loc[w].pc = "source"
    /\ is_hourly_gh_data_exists_in_localfs(loc[w].date, loc[w].hour)
    /\ SetLoc(w, StartDrain(w, cache[Unit(w)]))
    /\ Note(w, {"cached"}, NoLast)
    /\ UNCHANGED <<archive, cache, stores, stdout, requests, calls, faults>>

\* The files a completed download can leave: the whole payload, or one the
\* server cut short (read() returns b'' early, so success stays True).
Downloadable == {WholeFile} \cup {TruncatedFile(n) : n \in 0 .. Len(archive)}

\* __download_hourly_gh_data_from_server returns True.
FetchOk(w) ==
    /\ loc[w].pc = "source"
    /\ ~is_hourly_gh_data_exists_in_localfs(loc[w].date, loc[w].hour)
    /\ \E file \in Downloadable :
          /\ Fail(B(file.truncated))
          /\ cache' = [cache EXCEPT ![Unit(w)] = file]
          /\ SetLoc(w, StartDrain(w, file))
    /\ requests' = [requests EXCEPT ![Unit(w)] = @ + 1]
    /\ Note(w, {"fetched"}, NoLast)
    /\ UNCHANGED <<archive, stores, stdout, calls>>

\* urlopen raises HTTPError or URLError: caught, nothing was written,
\* the download returns False and so does the ingest.
FetchFails(w) ==
    /\ loc[w].pc = "source"
    /\ ~is_hourly_gh_data_exists_in_localfs(loc[w].date, loc[w].hour)
    /\ \E exc \in {"HTTPError", "URLError"} :
          Note(w, {"fetch_failed"}, [NoLast EXCEPT !.op = "fetch", !.exc = exc])
    /\ requests' = [requests EXCEPT ![Unit(w)] = @ + 1]
    /\ SetLoc(w, [loc[w] EXCEPT !.pc = "print", !.ret = FALSE])
    /\ Fail(1)
    /\ UNCHANGED <<archive, cache, stores, stdout, calls>>

\* response.read raises after some chunks were written (a reset connection,
\* a timeout, an IncompleteRead: none is a URLError): the finally clause
\* removes the partial file and the exception propagates.
FetchRaises(w) ==
    /\ loc[w].pc = "source"
    /\ ~is_hourly_gh_data_exists_in_localfs(loc[w].date, loc[w].hour)
    /\ cache' = [cache EXCEPT ![Unit(w)] = NoFile]
    /\ requests' = [requests EXCEPT ![Unit(w)] = @ + 1]
    /\ Raise(w, {"fetch_failed", "fetch_raised"}, [NoLast EXCEPT !.op = "fetch", !.exc = "OSError"])
    /\ Fail(1)
    /\ UNCHANGED <<archive, stores, stdout, calls>>


\* ------------------------------------------------------------------ draining
\* The except clauses of the drain loop that route the raw line to GridFS
\* (lines 165-173); EOFError has its own clause, every other exception
\* falls to `except Exception`.
RecoverableWithoutWriteError == {"JSONDecodeError", "DocumentTooLarge"}

Recoverable == {"JSONDecodeError", "DocumentTooLarge", "WriteError"}

\* The handlers without the `except Exception` clause of lines 174-177.
HandlerWithoutAbort(exc) ==
    CASE exc = "EOFError" -> "purge"
      [] OTHER            -> "fallback"

Handler(exc) ==
    CASE exc = "EOFError"    -> "purge"
      [] exc \in Recoverable -> "fallback"
      [] OTHER               -> "abort"

\* What the try body raises on a line that was read: the exception of
\* json.loads, or else one col.insert_one can raise ("Exception" stands for
\* every error that is neither DocumentTooLarge nor WriteError: a lost
\* connection, a TypeError for a JSON value that is no object, ...).
StoreErrors == {"DocumentTooLarge", "WriteError", "Exception"}

Raisable(line) ==
    IF json_loads(line).exc # "none"
    THEN {json_loads(line).exc}
    ELSE StoreErrors

\* gzip_file.readline() has data to return.
HasLine(w) == loc[w].pc = "drain" /\ loc[w].pos < loc[w].gzip_file.lines

NextLine(w) == RawLine(loc[w].date, loc[w].hour, loc[w].pos + 1)

\* The document col.insert_one(event) stores, under a fresh _id.
PrimaryDoc(w, n) ==
    [coll |-> loc[w].col, id |-> NewId("doc", hist[w].att, n),
     event |-> json_loads(RawLine(loc[w].date, loc[w].hour, n)).event]

\* `if not line: break`: the stream was read to its end-of-stream marker.
DrainEnd(w) ==
    /\ loc[w].pc = "drain"
    /\ loc[w].pos = loc[w].gzip_file.lines
    /\ ~loc[w].gzip_file.truncated
    /\ SetLoc(w, [loc[w] EXCEPT !.pc = "commit"])
    /\ Note(w, {"drained"}, [NoLast EXCEPT !.op = "eof"])
    /\ UNCHANGED <<archive, cache, stores, stdout, requests, calls, faults>>

\* readline raises EOFError: the cache file is removed and the loop left.
DrainTruncated(w) ==
    /\ loc[w].pc = "drain"
    /\ loc[w].pos = loc[w].gzip_file.lines
    /\ loc[w].gzip_file.truncated
    /\ Handler("EOFError") = "purge"
    /\ cache' = [cache EXCEPT ![Unit(w)] = NoFile]
    /\ SetLoc(w, [loc[w] EXCEPT !.pc = "rollback", !.is_insertion_complete = FALSE])
    /\ Note(w, {"truncated"}, [NoLast EXCEPT !.op = "line", !.exc = "EOFError", !.n = loc[w].pos + 1])
    /\ UNCHANGED <<archive, stores, stdout, requests, calls, faults>>

\* The line parses and the insert is acknowledged: its _id is recorded.
DrainInsert(w) ==
    /\ HasLine(w)
    /\ json_loads(NextLine(w)).exc = "none"
    /\ LET n == loc[w].pos + 1
           doc == PrimaryDoc(w, n)
       IN  /\ primary' = primary \cup {doc}
           /\ SetLoc(w, [loc[w] EXCEPT !.pos = n, !.inserted_ids = Append(@, doc.id)])
           /\ Note(w, {"inserted"}, [NoLast EXCEPT !.op = "line", !.line = NextLine(w), !.n = n])
    /\ UNCHANGED <<archive, cache, status, gridfs, fs, stdout, requests, calls, faults>>

\* The line parses and the insert result is not acknowledged: the loop is
\* left before inserted_ids.append (lines 152-156).
DrainUnacknowledged(w) ==
    /\ HasLine(w)
    /\ json_loads(NextLine(w)).exc = "none"
    /\ LET n == loc[w].pos + 1
       IN  /\ \E applied \in BOOLEAN :
                 primary' = IF applied THEN primary \cup {PrimaryDoc(w, n)} ELSE primary
           /\ SetLoc(w, [loc[w] EXCEPT !.pos = n, !.pc = "rollback", !.is_insertion_complete = FALSE])
           /\ Note(w, {"insert_unacknowledged"},
                   [NoLast EXCEPT !.op = "line", !.exc = "unacknowledged", !.line = NextLine(w), !.n = n])
    /\ Fail(1)
    /\ UNCHANGED <<archive, cache, status, gridfs, fs, stdout, requests, calls>>

\* __insert_event_by_gridfs writing the index row but never the file.
insert_event_without_put(a, d, h, n, line, r, applied) ==
    LET file_id == NewId("file", a, n)
        row == [id |-> NewId("row", a, n), file_id |-> file_id, date |-> d, hour |-> h]
    IN  [fs |-> fs,
         gridfs |-> IF r = "ok" \/ (r = "index_unacknowledged" /\ applied)
                    THEN gridfs \cup {row} ELSE gridfs,
         raised |-> r # "ok",
         file_id |-> file_id]

\* The results of __insert_event_by_gridfs: fs.put raises; the index insert
\* raises; its result is not acknowledged (the assert fails); it returns.
GridfsResults == {"ok", "put_raises", "index_raises", "index_unacknowledged"}

\* __insert_event_by_gridfs(date, hour, line) under result r: the GridFS
\* files and the index collection it leaves, and whether it raised.
insert_event_by_gridfs(a, d, h, n, line, r, applied) ==
    LET file_id == NewId("file", a, n)
        row == [id |-> NewId("row", a, n), file_id |-> file_id, date |-> d, hour |-> h]
    IN  [fs |-> IF r = "put_raises" THEN fs ELSE fs \cup {[file_id |-> file_id, data |-> line]},
         gridfs |-> IF r = "ok" \/ (r = "index_unacknowledged" /\ applied)
                    THEN gridfs \cup {row} ELSE gridfs,
         raised |-> r # "ok",
         file_id |-> file_id]

\* A handler of lines 165-173: the raw line goes to GridFS.  An exception of
\* __insert_event_by_gridfs is raised inside the except clause, where no
\* clause of the same try statement catches it.
DrainFallback(w) ==
    /\ HasLine(w)
    /\ \E exc \in Raisable(NextLine(w)), r \in GridfsResults :
       \E applied \in IF r = "index_unacknowledged" THEN BOOLEAN ELSE {FALSE} :
          LET n == loc[w].pos + 1
              got == insert_event_by_gridfs(hist[w].att, loc[w].date, loc[w].hour, n,
                                            NextLine(w), r, applied)
              l == [op |-> "line", exc |-> exc, fb |-> r, line |-> NextLine(w), n |-> n]
          IN  /\ Handler(exc) = "fallback"
              /\ Fail(B(exc \in StoreErrors) + B(got.raised))
              /\ fs' = got.fs
              /\ gridfs' = got.gridfs
              /\ IF got.raised
                 THEN Raise(w, {"gridfs_failed"}, l)
                 ELSE /\ SetLoc(w, [loc[w] EXCEPT !.pos = n,
                                          !.inserted_file_ids = Append(@, got.file_id)])
                      /\ Note(w, {"fallback"}, l)
    /\ UNCHANGED <<archive, cache, primary, status, stdout, requests, calls>>

\* `except Exception`: the traceback is written and the loop left.
DrainAbort(w) ==
    /\ HasLine(w)
    /\ \E exc \in Raisable(NextLine(w)) :
          /\ Handler(exc) = "abort"
          /\ Fail(B(exc \in StoreErrors))
          /\ Note(w, {"aborted"},
                  [NoLast EXCEPT !.op = "line", !.exc = exc, !.line = NextLine(w), !.n = loc[w].pos + 1])
    /\ SetLoc(w, [loc[w] EXCEPT !.pos = @ + 1, !.pc = "rollback", !.is_insertion_complete = FALSE])
    /\ UNCHANGED <<archive, cache, stores, stdout, requests, calls>>

\* ------------------------------------------------------------------ commit
\* A Ledger entry keyed by the date alone.
LedgerDocWithoutHour(w) == [id |-> NewId("status", hist[w].att, 0), datetime |-> UnitKey(loc[w].date, 0)]

LedgerDoc(w) == [id |-> NewId("status", hist[w].att, 0), datetime |-> UnitKey(loc[w].date, loc[w].hour)]

\* Lines 179-184: col is rebound to the 'status' collection and the Ledger
\* entry inserted.  r: "ok", "unacknowledged" (applied or not) or "raises".
Commit(w) ==
    /\ loc[w].pc = "commit"
    /\ loc[w].is_insertion_complete
    /\ \E r \in {"ok", "unacknowledged", "raises"} :
       \E applied \in IF r = "unacknowledged" THEN BOOLEAN ELSE {FALSE} :
          LET l == [NoLast EXCEPT !.op = "commit", !.exc = r]
          IN  /\ Fail(B(r # "ok"))
              /\ status' = IF r = "ok" \/ applied THEN status \cup {LedgerDoc(w)} ELSE status
              /\ CASE r = "ok" ->
                        /\ SetLoc(w, [loc[w] EXCEPT !.col = "status", !.pc = "print", !.ret = TRUE])
                        /\ Note(w, {"committed"}, l)
                   [] r = "unacknowledged" ->
                        /\ SetLoc(w, [loc[w] EXCEPT !.col = "status", !.pc = "rollback",
                                                    !.is_insertion_complete = FALSE])
                        /\ Note(w, {"ledger_unacknowledged"}, l)
                   [] r = "raises" ->
                        Raise(w, {"ledger_raised"}, l)
    /\ UNCHANGED <<archive, cache, primary, gridfs, fs, stdout, requests, calls>>

\* ------------------------------------------------------------------ rollback
\* A delete with the filter {} in place of {"_id": inserted_id}: every
\* document of collection c matches.
delete_one_without_filter(c, id) ==
    [primary |-> {doc \in primary : doc.coll # c},
     status |-> IF c = "status" THEN {} ELSE status]

\* col.delete_one({"_id": inserted_id}) applied to collection c.
delete_one(c, id) ==
    [primary |-> {doc \in primary : ~(doc.coll = c /\ doc.id = id)},
     status |-> IF c = "status" THEN {doc \in status : doc.id # id} ELSE status]

\* One iteration of the loop of lines 188-190, on whatever col is bound to.
\* r: "ok", "unacknowledged" (the assert fails) or "raises".
RollbackPrimary(w) ==
    /\ loc[w].pc = "rollback"
    /\ loc[w].i <= Len(loc[w].inserted_ids)
    /\ \E r \in {"ok", "unacknowledged", "raises"} :
       \E applied \in IF r = "unacknowledged" THEN BOOLEAN ELSE {FALSE} :
          LET after == delete_one(loc[w].col, loc[w].inserted_ids[loc[w].i])
              l == [NoLast EXCEPT !.op = "delete_one", !.exc = r, !.n = loc[w].i]
          IN  /\ Fail(B(r # "ok"))
              /\ primary' = IF r = "ok" \/ applied THEN after.primary ELSE primary
              /\ status' = IF r = "ok" \/ applied THEN after.status ELSE status
              /\ IF r = "ok"
                 THEN /\ SetLoc(w, [loc[w] EXCEPT !.i = @ + 1])
                      /\ Note(w, {"rolled_back"}, l)
                 ELSE Raise(w, {"rolled_back", "delete_failed"}, l)
    /\ UNCHANGED <<archive, cache, gridfs, fs, stdout, requests, calls>>

\* __delete_event_by_gridfs(file_id): fs.delete removes the GridFS file.
delete_event_by_gridfs(file_id) == {f \in fs : f.file_id # file_id}

\* One iteration of the loop of lines 192-193.  r: "ok" or "raises".
RollbackFallback(w) ==
    /\ loc[w].pc = "rollback"
    /\ loc[w].i > Len(loc[w].inserted_ids)
    /\ loc[w].j <= Len(loc[w].inserted_file_ids)
    /\ \E r \in {"ok", "raises"} :
          LET l == [NoLast EXCEPT !.op = "fs_delete", !.exc = r, !.n = loc[w].j]
          IN  /\ Fail(B(r # "ok"))
              /\ IF r = "ok"
                 THEN /\ fs' = delete_event_by_gridfs(loc[w].inserted_file_ids[loc[w].j])
                      /\ SetLoc(w, [loc[w] EXCEPT !.j = @ + 1])
                      /\ Note(w, {"rolled_back"}, l)
                 ELSE /\ fs' = fs
                      /\ Raise(w, {"rolled_back", "delete_failed"}, l)
    /\ UNCHANGED <<archive, cache, primary, status, gridfs, stdout, requests, calls>>

\* Line 194: both loops are done, return False.
RollbackReturn(w) ==
    /\ loc[w].pc = "rollback"
    /\ loc[w].i > Len(loc[w].inserted_ids)
    /\ loc[w].j > Len(loc[w].inserted_file_ids)
    /\ SetLoc(w, [loc[w] EXCEPT !.pc = "print", !.ret = FALSE])
    /\ Note(w, {"rolled_back"}, [NoLast EXCEPT !.op = "return"])
    /\ UNCHANGED <<archive, cache, stores, stdout, requests, calls, faults>>

\* ------------------------------------------------------------------ specification
Next ==
    \E w \in Workers :
        \/ \E d \in Dates, h \in Hours : RunHourly(w, d, h)
        \/ \E d \in Dates : RunDaily(w, d)
        \/ DailyLoop(w)
        \/ IngestBegin(w)
        \/ SourceCached(w)
        \/ FetchOk(w)
        \/ FetchFails(w)
        \/ FetchRaises(w)
        \/ DrainEnd(w)
        \/ DrainTruncated(w)
        \/ DrainInsert(w)
        \/ DrainUnacknowledged(w)
        \/ DrainFallback(w)
        \/ DrainAbort(w)
        \/ Commit(w)
        \/ RollbackPrimary(w)
        \/ RollbackFallback(w)
        \/ RollbackReturn(w)
        \/ ReportOutcome(w)

Spec == Init /\ [][Next]_vars

\* Two crawler processes, each started with -h, run against the same
\* database and cache directory; their steps interleave.
InitRace == InitWith(Workers)

NextRace ==
    \E w \in Workers :
        \/ \E d \in Dates, h \in Hours : RunHourly(w, d, h)
        \/ IngestBegin(w)
        \/ SourceCached(w)
        \/ FetchOk(w)
        \/ FetchFails(w)
        \/ FetchRaises(w)
        \/ DrainEnd(w)
        \/ DrainTruncated(w)
        \/ DrainInsert(w)
        \/ DrainUnacknowledged(w)
        \/ DrainFallback(w)
        \/ DrainAbort(w)
        \/ Commit(w)
        \/ RollbackPrimary(w)
        \/ RollbackFallback(w)
        \/ RollbackReturn(w)
        \/ ReportOutcome(w)

SpecRace == InitRace /\ [][NextRace]_vars


\* ------------------------------------------------------------------ claims
\* What worker w's current (or last) call has left in the stores.
AttemptPrimary(w) == {doc \in primary : doc.id.att = hist[w].att}
AttemptFiles(w) == {f \in fs : f.file_id.att = hist[w].att}
AttemptRows(w) == {row \in gridfs : row.id.att = hist[w].att}
AttemptLedger(w) == {doc \in status : doc.id.att = hist[w].att}

LedgerHas(u) == \E doc \in status : doc.datetime = UnitKey(u[1], u[2])

\* The call of worker w is over: it returned (and its outcome was printed),
\* or it was left by an exception.
Returned(w) == hist[w].outcome \in {"pass", "fail"}
Ended(w) == hist[w].outcome \in {"pass", "fail", "raised"}

\* The Ledger held an entry for the unit when the call of worker w began.
HadLedger(w) ==
    /\ hist[w].att > 0
    /\ \E doc \in hist[w].snap.status : doc.datetime = UnitKey(hist[w].unit[1], hist[w].unit[2])

\* C1: a call for a unit the Ledger already holds reports pass and changes
\* nothing: no store document or blob, no Ledger entry, no remote request
\* and no cache file differs from what it was when the call began.
C1_Idempotent ==
    \A w \in Workers :
        HadLedger(w) =>
            /\ primary = hist[w].snap.primary
            /\ status = hist[w].snap.status
            /\ gridfs = hist[w].snap.gridfs
            /\ fs = hist[w].snap.fs
            /\ requests = hist[w].snap.requests
            /\ cache = hist[w].snap.cache
            /\ hist[w].outcome \in {"none", "pass"}
            /\ hist[w].outcome = "none" => loc[w].pc = "print" /\ loc[w].ret

C1_Witness ==
    \E w \in Workers : HadLedger(w) /\ hist[w].outcome = "pass" /\ hist[w].snap.primary # {}

\* C2: when the insert of a line is not acknowledged, the call ends with
\* outcome fail, no Primary document of this attempt (the one of that line
\* included) and no Ledger entry for the unit.
C2_DrainAbortAtomic ==
    \A w \in Workers :
        (Ended(w) /\ "insert_unacknowledged" \in hist[w].ev) =>
            /\ hist[w].outcome = "fail"
            /\ AttemptPrimary(w) = {}
            /\ ~LedgerHas(hist[w].unit)

\* C3: a rollback that ran to its end leaves no Fallback entry of the
\* attempt: neither a GridFS file nor an index row.
C3_RollbackRemovesFallback ==
    \A w \in Workers :
        (Returned(w) /\ "rolled_back" \in hist[w].ev) =>
            /\ AttemptFiles(w) = {}
            /\ AttemptRows(w) = {}

\* C4: when the Ledger write is not acknowledged, the call ends with outcome
\* fail and every Primary document and Fallback entry of the attempt deleted.
C4_LedgerFailureRolledBack ==
    \A w \in Workers :
        (Ended(w) /\ "ledger_unacknowledged" \in hist[w].ev) =>
            /\ hist[w].outcome = "fail"
            /\ AttemptPrimary(w) = {}
            /\ AttemptFiles(w) = {}
            /\ AttemptRows(w) = {}

\* Line i of unit u is in the Primary Store (its parsed event, in the
\* collection of the unit's date) or in the Fallback Store (its raw bytes).
Represented(u, i) ==
    LET line == RawLine(u[1], u[2], i)
    IN  \/ /\ json_loads(line).exc = "none"
           /\ \E doc \in primary : doc.coll = u[1] /\ doc.event = json_loads(line).event
        \/ \E f \in fs : f.data = line

\* C5: in every reachable state, a unit with a Ledger entry has every line
\* of its payload in the Primary Store or in the Fallback Store.
C5_LedgerImpliesComplete ==
    \A u \in Units :
        LedgerHas(u) => \A i \in 1 .. Len(archive) : Represented(u, i)

Printed(w) == SubSeq(stdout[w], loc[w].out0 + 1, Len(stdout[w]))

\* C7: a call that is over has printed exactly one line, pass or fail, for
\* its unit; a daily run that is over has printed one line for each hour,
\* in increasing order of the hour.
C7_OneOutcomePerUnit ==
    \A w \in Workers :
        /\ Ended(w) =>
              /\ Len(stdout[w]) = hist[w].snap.printed + 1
              /\ stdout[w][Len(stdout[w])] \in
                    {<<o, hist[w].unit[1], hist[w].unit[2]>> : o \in {"pass", "fail"}}
        /\ (loc[w].mode = "daily" /\ loc[w].pc \in {"idle", "crashed"}) =>
              /\ Len(Printed(w)) = NumHours
              /\ \A k \in 1 .. NumHours :
                    Printed(w)[k][2] = loc[w].date /\ Printed(w)[k][3] = k - 1

\* C8: when GridFS fails while a line is routed to it, the call ends with
\* outcome fail, nothing the attempt stored left in either store, and no
\* Ledger entry written.
C8_FallbackFailureIsUnitFatal ==
    \A w \in Workers :
        (Ended(w) /\ "gridfs_failed" \in hist[w].ev) =>
            /\ hist[w].outcome = "fail"
            /\ AttemptPrimary(w) = {}
            /\ AttemptFiles(w) = {}
            /\ AttemptRows(w) = {}
            /\ AttemptLedger(w) = {}

\* C9: when a deletion of the rollback fails, the deletion of every other
\* recorded identity is still attempted and the call ends with outcome fail.
C9_RollbackBestEffort ==
    \A w \in Workers :
        (Ended(w) /\ "delete_failed" \in hist[w].ev) =>
            /\ hist[w].outcome = "fail"
            /\ loc[w].i > Len(loc[w].inserted_ids)
            /\ loc[w].j > Len(loc[w].inserted_file_ids)

\* C10: when the stream ends before its end-of-stream marker, the call ends
\* with outcome fail, the cache file gone, no Primary document and no
\* Fallback entry of the attempt left, and no Ledger entry for the unit.
C10_TruncationCleanup ==
    \A w \in Workers :
        (Ended(w) /\ "truncated" \in hist[w].ev) =>
            /\ hist[w].outcome = "fail"
            /\ ~cache[hist[w].unit].exists
            /\ AttemptPrimary(w) = {}
            /\ AttemptFiles(w) = {}
            /\ AttemptRows(w) = {}
            /\ ~LedgerHas(hist[w].unit)

\* C11: a remote fetch that succeeds leaves the unit's cache file in place;
\* the file stays until the truncation handler of a call for that unit
\* removes it; and while the file exists no call issues a remote request
\* for the unit (it opens the cached file).
C11_CacheCorrectness ==
    [][\A u \in Units :
          /\ (\E w \in Workers : /\ hist'[w].unit = u
                                 /\ "fetched" \in hist'[w].ev
                                 /\ "fetched" \notin hist[w].ev) => cache'[u].exists
          /\ (cache[u].exists /\ ~cache'[u].exists) =>
                \E w \in Workers : /\ hist'[w].unit = u
                                   /\ hist'[w].last.op = "line"
                                   /\ hist'[w].last.exc = "EOFError"
          /\ requests'[u] # requests[u] => ~cache[u].exists]_vars

C11_Witness ==
    \E w \in Workers :
        /\ "cached" \in hist[w].ev
        /\ hist[w].prev.unit = hist[w].unit
        /\ "fetched" \in hist[w].prev.ev
        /\ requests[hist[w].unit] = 1

\* C12: when the remote fetch of an uncached unit fails, the call ends with
\* outcome fail (the fetch having returned False), no cache file at the
\* unit's path, and no Primary, Fallback or Ledger write of this attempt.
C12_FailedFetchLeavesNothing ==
    \A w \in Workers :
        (Ended(w) /\ "fetch_failed" \in hist[w].ev) =>
            /\ hist[w].outcome = "fail"
            /\ ~cache[hist[w].unit].exists
            /\ AttemptPrimary(w) = {}
            /\ AttemptFiles(w) = {}
            /\ AttemptRows(w) = {}
            /\ AttemptLedger(w) = {}

\* The documents and Fallback entries worker w's attempt holds for line i of
\* its unit: the parsed event in the unit's date collection; the raw line as
\* a GridFS file with exactly one index row of the unit's date and hour.
AttemptDocsOf(w, i) ==
    {doc \in AttemptPrimary(w) :
        /\ doc.id.n = i
        /\ doc.coll = hist[w].unit[1]
        /\ doc.event = json_loads(RawLine(hist[w].unit[1], hist[w].unit[2], i)).event}

AttemptEntriesOf(w, i) ==
    {f \in AttemptFiles(w) :
        /\ f.file_id.n = i
        /\ f.data = RawLine(hist[w].unit[1], hist[w].unit[2], i)
        /\ Cardinality({row \in gridfs : /\ row.file_id = f.file_id
                                         /\ row.date = hist[w].unit[1]
                                         /\ row.hour = hist[w].unit[2]}) = 1}

\* The failing results that are fatal to a unit, as the calls record them.
FatalEvents ==
    {"fetch_failed", "truncated", "insert_unacknowledged", "aborted", "gridfs_failed",
     "ledger_unacknowledged", "ledger_raised", "delete_failed"}

\* The call of worker w ingested (no skip) a payload whose lines all parse
\* or raise JSONDecodeError, and met no failing result but store rejections
\* (too large, write error) of single lines.
CleanRun(w) ==
    /\ Ended(w)
    /\ ~HadLedger(w)
    /\ \A i \in 1 .. Len(archive) : archive[i] \in {"json", "malformed"}
    /\ hist[w].ev \cap FatalEvents = {}

UnitFatalConditions == {"Exception", "unacknowledged", "EOFError"}

FatalAt(w) == hist[w].last.op = "line" /\ hist[w].last.exc \in UnitFatalConditions

\* Worker w is rolling back an attempt whose drain loop was left early.
RollingBackDrain(w) == loc[w].pc = "rollback" /\ "drained" \notin hist[w].ev

\* C14: a unit-fatal condition at line k ends the drain loop at once (the
\* call goes to rollback with is_insertion_complete false); from then on no
\* line is read, no record or Fallback entry of the attempt is added, the
\* stores only shrink, and the attempt never writes the Ledger.
C14_AbortIsImmediate ==
    [][\A w \in Workers :
          /\ FatalAt(w)' =>
                /\ loc'[w].pc = "rollback"
                /\ ~loc'[w].is_insertion_complete
                /\ loc'[w].pos <= hist'[w].last.n
                /\ AttemptLedger(w)' = {}
          /\ RollingBackDrain(w) =>
                /\ loc'[w].pc \in {"rollback", "print", "crashed"}
                /\ loc'[w].pos = loc[w].pos
                /\ AttemptPrimary(w)' \subseteq AttemptPrimary(w)
                /\ AttemptFiles(w)' \subseteq AttemptFiles(w)
                /\ AttemptRows(w)' \subseteq AttemptRows(w)
                /\ AttemptLedger(w)' = {}
                /\ hist'[w].ev \ hist[w].ev \subseteq {"rolled_back", "delete_failed"}]_vars

C14_Witness ==
    \E w \in Workers :
        /\ loc[w].pc = "print"
        /\ hist[w].ev \cap {"aborted", "insert_unacknowledged"} # {}
        /\ "rolled_back" \in hist[w].ev
        /\ loc[w].pos < loc[w].gzip_file.lines
        /\ AttemptLedger(w) = {}

\* The exceptions json.loads raises on a line it cannot parse.
ParseFailures == {"JSONDecodeError", "UnicodeDecodeError"}

\* C15: whatever the reason a line cannot be parsed (with GridFS working),
\* the raw line is put into the Fallback Store, its file id is recorded and
\* draining goes on with the next line.
C15_ParseFailureRecoverable ==
    \A w \in Workers :
        (/\ hist[w].last.op = "line"
         /\ hist[w].last.exc \in ParseFailures
         /\ hist[w].last.fb \in {"none", "ok"}) =>
            /\ loc[w].pc = "drain"
            /\ loc[w].is_insertion_complete
            /\ \E f \in AttemptFiles(w) :
                  /\ f.data = hist[w].last.line
                  /\ f.file_id \in {loc[w].inserted_file_ids[k] :
                                        k \in 1 .. Len(loc[w].inserted_file_ids)}

\* The call before worker w's current one was for the same unit, went into
\* rollback, had every deletion succeed and returned False.
RetryAfterRollback(w) ==
    /\ hist[w].prev.unit = hist[w].unit
    /\ hist[w].prev.outcome = "fail"
    /\ "rolled_back" \in hist[w].prev.ev
    /\ "delete_failed" \notin hist[w].prev.ev

\* How often line i of unit u is stored: as a Primary record, as a GridFS
\* file, as an index row.
StoredDocs(u, i) == {doc \in primary : doc.event = <<"event", <<u[1], u[2], i>>>>}
StoredFiles(u, i) == {f \in fs : f.data.bytes = <<u[1], u[2], i>>}
StoredRows(u, i) == {row \in gridfs : row.date = u[1] /\ row.hour = u[2] /\ row.id.n = i}

\* C16: a call that retries a unit whose previous attempt failed and was
\* rolled back with every deletion succeeding is not skipped; when it
\* passes, each line of the unit is stored exactly once (one Primary record,
\* or one GridFS file with one index row) and nothing of the failed attempt
\* is left.
C16_RetryIsClean ==
    \A w \in Workers :
        (Ended(w) /\ RetryAfterRollback(w)) =>
            /\ ~HadLedger(w)
            /\ hist[w].outcome = "pass" =>
                  /\ \A i \in 1 .. Len(archive) :
                        /\ Cardinality(StoredDocs(hist[w].unit, i))
                              + Cardinality(StoredFiles(hist[w].unit, i)) = 1
                        /\ Cardinality(StoredRows(hist[w].unit, i))
                              = Cardinality(StoredFiles(hist[w].unit, i))
                  /\ \A x \in primary \cup gridfs \cup status : x.id.att # hist[w].prev.att
                  /\ \A f \in fs : f.file_id.att # hist[w].prev.att

\* The entries of unit u in a Primary Store P, a GridFS file set F, an index
\* collection G and a Ledger S.
DocsOfUnit(P, u) == {doc \in P : <<doc.event[2][1], doc.event[2][2]>> = u}
FilesOfUnit(F, u) == {f \in F : <<f.data.bytes[1], f.data.bytes[2]>> = u}
RowsOfUnit(G, u) == {row \in G : <<row.date, row.hour>> = u}
LedgerOfUnit(S, u) == {doc \in S : doc.datetime = UnitKey(u[1], u[2])}

\* C17: during and after a call for unit (d, h), its rollback included, the
\* Primary records, Fallback entries and Ledger entries of every other unit
\* are what they were when the call began.
C17_RollbackScopedToAttempt ==
    \A w \in Workers :
        hist[w].att > 0 =>
            \A u \in Units \ {hist[w].unit} :
                /\ DocsOfUnit(primary, u) = DocsOfUnit(hist[w].snap.primary, u)
                /\ FilesOfUnit(fs, u) = FilesOfUnit(hist[w].snap.fs, u)
                /\ RowsOfUnit(gridfs, u) = RowsOfUnit(hist[w].snap.gridfs, u)
                /\ LedgerOfUnit(status, u) = LedgerOfUnit(hist[w].snap.status, u)

C17_Witness ==
    \E w \in Workers :
        /\ hist[w].outcome = "fail"
        /\ {"inserted", "rolled_back"} \subseteq hist[w].ev
        /\ AttemptPrimary(w) = {}
        /\ \E u \in Units \ {hist[w].unit} :
              /\ u[1] = hist[w].unit[1]
              /\ DocsOfUnit(primary, u) # {}
              /\ LedgerOfUnit(status, u) # {}

\* Unit u was reported pass among the first n lines worker w printed.
PassedBefore(w, u, n) ==
    \E k \in 1 .. n : stdout[w][k] = <<"pass", u[1], u[2]>>

\* C18: with one call at a time, the Ledger never holds two entries of one
\* unit key, and a unit that was reported pass has a Ledger entry and is
\* reported pass by every later call: no later line is a fail line and a
\* later call for the unit is skipped and ends with pass.
C18_SequentialLedger ==
    /\ \A u \in Units : Cardinality(LedgerOfUnit(status, u)) <= 1
    /\ \A w \in Workers :
          /\ \A k \in 1 .. Len(stdout[w]) :
                stdout[w][k][1] = "pass" =>
                    /\ LedgerHas(<<stdout[w][k][2], stdout[w][k][3]>>)
                    /\ \A m \in k .. Len(stdout[w]) :
                          stdout[w][m] # <<"fail", stdout[w][k][2], stdout[w][k][3]>>
          /\ (hist[w].att > 0 /\ PassedBefore(w, hist[w].unit, hist[w].snap.printed)) =>
                /\ "skip" \in hist[w].ev
                /\ hist[w].outcome \in {"none", "pass"}
                /\ hist[w].outcome = "none" => loc[w].pc = "print" /\ loc[w].ret

C18_Witness ==
    \E w \in Workers :
        /\ hist[w].att > 0
        /\ PassedBefore(w, hist[w].unit, hist[w].snap.printed)
        /\ hist[w].outcome = "pass"
        /\ Len(archive) > 0
        /\ Cardinality(LedgerOfUnit(status, hist[w].unit)) = 1

\* C19: with two workers, a Ledger entry of a unit is added only by the
\* commit of a worker whose own skip check found no entry when its call
\* began and whose drain loop ended; the commit does not look at the Ledger
\* again, so the key may already have an entry of the other worker.
C19_SameUnitRace ==
    [][\A u \in Units :
          LedgerOfUnit(status, u)' # LedgerOfUnit(status, u) =>
              \E w \in Workers :
                  /\ hist[w].unit = u
                  /\ loc[w].pc = "commit"
                  /\ ~HadLedger(w)
                  /\ "drained" \in hist[w].ev
                  /\ \E doc \in status' \ status :
                        /\ doc.id.att = hist[w].att
                        /\ LedgerOfUnit(status, u)' = LedgerOfUnit(status, u) \cup {doc}]_vars

\* Both workers passed the skip check of the same unit, drained the payload
\* and committed: two Ledger entries of the key, every line stored twice.
C19_Witness ==
    /\ Len(archive) > 0
    /\ hist["w1"].unit = hist["w2"].unit
    /\ \A w \in Workers :
          /\ ~HadLedger(w)
          /\ {"drained", "committed"} \subseteq hist[w].ev
          /\ hist[w].outcome = "pass"
          /\ Cardinality(AttemptLedger(w)) = 1
    /\ Cardinality(LedgerOfUnit(status, hist["w1"].unit)) = 2
    /\ \A i \in 1 .. Len(archive) :
          Cardinality(StoredDocs(hist["w1"].unit, i)) + Cardinality(StoredFiles(hist["w1"].unit, i)) = 2

====
